---- MODULE Spec2Model ----
(***************************************************************************)
(* Model of src/train.py: main() of the cross-validation training          *)
(* orchestrator (configuration dispatch, dataset composition, fold loop,   *)
(* epoch loop, best-model trackers, persisted logs and summary tables).   *)
(*                                                                         *)
(* Numbers: every metric is an integer (a scaled float); float('inf') is   *)
(* the sentinel Inf.  A cell of a summary table is a rational [num, den];  *)
(* den = 0 is the empty-string cell that closes the best_epoch column.     *)
(* External collaborators (model forward/backward, metrics, sklearn's      *)
(* StratifiedKFold, the file system before the first run) are inputs.      *)
(***************************************************************************)
EXTENDS Integers, Sequences, FiniteSets, TLC

\* ------------------------------------------------------------- bounds
MaxSplits == 2
MaxEpochs == 2
MaxRuns == 2
MaxDataSplits == 3

\* float('inf') of the tracker initialisation
Inf == 1000

\* ------------------------------------------------------------- domains
LossKinds == {"CrossEntropyLoss", "FocalLoss", "MSELoss", "multitask"}
PredTypes == {"classification", "regression", "multitask"}
Schedulers == {"CosineAnnealingLR", "ReduceLROnPlateau"}
DatasetNames == {"aptos2019", "diabetic_retinopathy", "messidor"}

\* what one validate pass can return: (val_loss, val_score, val_ac_score,
\* val_f1_score).  The ranking score (a kappa) can be negative; every loss,
\* score and accuracy combines with every other, the F1 value follows from
\* the loss and the accuracy
ValOutcomes ==
    {v \in [val_loss : {1, 2}, val_score : {-1, 0, 1}, val_ac_score : {0, 1},
            val_f1_score : {0, 1}] :
        v.val_f1_score = (v.val_loss + v.val_ac_score) % 2}

\* what one train pass can return: (loss, score, ac_score, f1_score); the
\* values are only logged
TrainOutcomes ==
    {[loss |-> 1, score |-> 1, ac_score |-> 1, f1_score |-> 1]}

VARIABLES
    args,         \* the parsed arguments (Run Configuration)
    inputs,       \* the tables under inputs/ and probs/, and the seeded split
    disk,         \* the files under models/<name>/
    run,          \* which run of this name is executing (1 = first)
    trained,      \* folds a run of this name has trained to the end
    pc,           \* position in main()
    err,          \* the exception that ended the run, "" when none
    criterion,    \* "unbound", "callable" or "dict"
    num_outputs,  \* 0 while unbound
    loaded,       \* the datasets loaded by lines 291-314
    img_paths,    \* list of (train paths, val paths), one per fold
    labels,       \* list of (train labels, val labels), one per fold
    fold,         \* the fold loop's index (0-based, as enumerate gives it)
    lists,        \* folds, best_losses, ... best_epochs_1 (lines 366-377)
    loaders,      \* train_set / val_set handed to Dataset() for this fold
    model,        \* the model object of the current fold and device cache
    scheduler,    \* the scheduler object
    log,          \* the log of the current fold
    epoch,        \* the epoch loop's index
    train_out,    \* what train() returned this epoch
    val_out,      \* what validate() returned this epoch
    best,         \* best_loss, best_score, best_ac_score, best_f1_score, best_epoch
    best_1        \* best_loss_1, ... best_epoch_1

vars ==
    <<args, inputs, disk, run, trained, pc, err, criterion, num_outputs, loaded,
      img_paths, labels, fold, lists, loaders, model, scheduler, log, epoch,
      train_out, val_out, best, best_1>>

\* ------------------------------------------------------------- helpers
RECURSIVE Sum(_)
Sum(s) == IF s = <<>> THEN 0 ELSE Head(s) + Sum(Tail(s))

Range(s) == {s[i] : i \in 1..Len(s)}

\* a number as a table cell
Num(x) == [num |-> x, den |-> 1]

\* the '' cell
Blank == [num |-> 0, den |-> 0]

RECURSIVE Cells(_)
Cells(s) == IF s = <<>> THEN <<>> ELSE <<Num(Head(s))>> \o Cells(Tail(s))

\* np.mean of a non-empty list: inf as soon as one element is inf
Mean(s) ==
    IF Inf \in Range(s) THEN Num(Inf) ELSE [num |-> Sum(s), den |-> Len(s)]

\* str(fold + 1)
FoldStr(f) ==
    <<"1", "2", "3", "4", "5", "6">>[f + 1]

NoFile == [exists |-> FALSE, rows |-> <<>>]

NoTable ==
    [exists |-> FALSE, fold |-> <<>>, best_loss |-> <<>>, best_score |-> <<>>,
     best_ac_score |-> <<>>, best_f1_score |-> <<>>, best_epoch |-> <<>>]

EmptyLists ==
    [folds |-> <<>>, best_losses |-> <<>>, best_scores |-> <<>>,
     best_ac_scores |-> <<>>, best_f1_scores |-> <<>>, best_epochs |-> <<>>,
     best_losses_1 |-> <<>>, best_scores_1 |-> <<>>, best_ac_scores_1 |-> <<>>,
     best_f1_scores_1 |-> <<>>, best_epochs_1 |-> <<>>]

\* names not yet assigned: never read before FoldSetup or the skip path binds them
Unbound == [loss |-> 0, score |-> 0, ac_score |-> 0, f1_score |-> 0, epoch |-> 0]

\* no assignment: what best_loss ... best_epoch hold from before
BestLeftAsIs == best

\* lines 492-502: the worst-possible values
InitialBest ==
    [loss |-> Inf, score |-> 0, ac_score |-> 0, f1_score |-> 0, epoch |-> 0]

NoOut == [loss |-> 0, score |-> 0, ac_score |-> 0, f1_score |-> 0]

NoValOut ==
    [val_loss |-> 0, val_score |-> 0, val_ac_score |-> 0, val_f1_score |-> 0,
     adj |-> [run |-> 0, fold |-> 0, epoch |-> 0]]

NoAdj == [exists |-> FALSE, adj |-> [run |-> 0, fold |-> 0, epoch |-> 0]]

\* built: a model object exists; forward: model(input) has been called;
\* cache: "held" while the device caches memory of a fold, "released" after
\* torch.cuda.empty_cache()
NoModel == [built |-> FALSE, fold |-> 0, forward |-> FALSE, cache |-> "released"]

NoScheduler == [kind |-> "unbound", steps |-> 0, last |-> 0]

NoLoaders ==
    [train_set |-> [paths |-> <<>>, labels |-> <<>>],
     val_set |-> [paths |-> <<>>, labels |-> <<>>]]

\* which of the names aptos2019_* / diabetic_retinopathy_* / img_paths and
\* labels are bound, and the arrays bound to them
NoLoaded ==
    [aptos2019 |-> FALSE, diabetic_retinopathy |-> FALSE, img_paths |-> FALSE,
     aptos2019_img_paths |-> <<>>, aptos2019_labels |-> <<>>,
     diabetic_retinopathy_img_paths |-> <<>>, diabetic_retinopathy_labels |-> <<>>]

\* ------------------------------------------------------------- dataset tables
\* dir + '/' + id + extension (lines 300-301, 313, 351, 394)
Path(dir, id) == [dir |-> dir, id |-> id]

\* df[column].values
Column(table, c) == [i \in 1..Len(table) |-> table[i][c]]

PathsOf(dir, ids) == [i \in 1..Len(ids) |-> Path(dir, ids[i])]

\* 'name' in args.train_dataset: the selection string is the sequence of the
\* names written in it, and none of the names is a substring of another
Contains(sel, name) == name \in Range(sel)

\* array[idx]
Pick(array, idx) == [j \in 1..Len(idx) |-> array[idx[j]]]

\* the ascending indices a split yields for one fold
ValIdx(test_folds, f) ==
    SelectSeq([i \in 1..Len(test_folds) |-> i], LAMBDA i : test_folds[i] = f)

TrainIdx(test_folds, f) ==
    SelectSeq([i \in 1..Len(test_folds) |-> i], LAMBDA i : test_folds[i] # f)

\* StratifiedKFold(n_splits, shuffle=True, random_state=41).split(X, y): the
\* assignment of every sample to one test fold that the seeded shuffle
\* gives; fold f's (train_idx, val_idx) are the samples outside / inside it
SkfSplit(test_folds, n_splits) ==
    [f \in 1..n_splits |->
        [train_idx |-> TrainIdx(test_folds, f), val_idx |-> ValIdx(test_folds, f)]]

\* the assignments sklearn's contract allows: per class and in total the
\* folds' sizes differ by at most one
ValidTestFolds(y, k) ==
    {tf \in [1..Len(y) -> 1..k] :
        /\ \A f, g \in 1..k :
              Cardinality({i \in 1..Len(y) : tf[i] = f})
                 <= Cardinality({i \in 1..Len(y) : tf[i] = g}) + 1
        /\ \A c \in Range(y) : \A f, g \in 1..k :
              Cardinality({i \in 1..Len(y) : y[i] = c /\ tf[i] = f})
                 <= Cardinality({i \in 1..Len(y) : y[i] = c /\ tf[i] = g}) + 1}

\* the training side not indexed by train_idx: the whole dataset
SingleFoldsWholeTrain(paths, y, test_folds, n_splits) ==
    LET sp == SkfSplit(test_folds, n_splits)
    IN  [img_paths |->
            [f \in 1..n_splits |-> <<paths, Pick(paths, sp[f].val_idx)>>],
         labels |->
            [f \in 1..n_splits |-> <<y, Pick(y, sp[f].val_idx)>>]]

\* lines 317-322 and 325-330: one dataset alone
SingleFolds(paths, y, test_folds, n_splits) ==
    LET sp == SkfSplit(test_folds, n_splits)
    IN  [img_paths |->
            [f \in 1..n_splits |->
                <<Pick(paths, sp[f].train_idx), Pick(paths, sp[f].val_idx)>>],
         labels |->
            [f \in 1..n_splits |->
                <<Pick(y, sp[f].train_idx), Pick(y, sp[f].val_idx)>>]]

\* the secondary dataset stacked onto the validation side as well
MixedFoldsBothSides(paths, y, paths2, y2, test_folds, n_splits) ==
    LET sp == SkfSplit(test_folds, n_splits)
    IN  [img_paths |->
            [f \in 1..n_splits |->
                <<Pick(paths, sp[f].train_idx) \o paths2,
                  Pick(paths, sp[f].val_idx) \o paths2>>],
         labels |->
            [f \in 1..n_splits |->
                <<Pick(y, sp[f].train_idx) \o y2, Pick(y, sp[f].val_idx) \o y2>>]]

\* lines 333-338: the split of the primary dataset, the whole secondary
\* dataset stacked onto every training side
MixedFolds(paths, y, paths2, y2, test_folds, n_splits) ==
    LET sp == SkfSplit(test_folds, n_splits)
    IN  [img_paths |->
            [f \in 1..n_splits |->
                <<Pick(paths, sp[f].train_idx) \o paths2, Pick(paths, sp[f].val_idx)>>],
         labels |->
            [f \in 1..n_splits |->
                <<Pick(y, sp[f].train_idx) \o y2, Pick(y, sp[f].val_idx)>>]]

\* the pseudo-labelled samples stacked onto the validation side too
AppendPseudoBothSides(pair, extra) == <<pair[1] \o extra, pair[2] \o extra>>

\* lines 353-355: the pseudo-labelled samples stacked onto one fold
AppendPseudo(pair, extra) == <<pair[1] \o extra, pair[2]>>

\* values[paths != p]
RECURSIVE MaskNe(_, _, _)
MaskNe(values, paths, p) ==
    IF values = <<>> THEN <<>>
    ELSE (IF Head(paths) # p THEN <<Head(values)>> ELSE <<>>)
            \o MaskNe(Tail(values), Tail(paths), p)

\* line 394: the ids with strMd5_count > 1 and a known diagnosis
DuplicateIds(md5) ==
    Column(SelectSeq(md5, LAMBDA r : r.strMd5_count > 1 /\ r.diagnosis >= 0),
           "id_code")

\* lines 396-400: drop every flagged path from both sides, labels first
RECURSIVE RemoveDuplicates(_, _)
RemoveDuplicates(sets, dups) ==
    IF dups = <<>> THEN sets
    ELSE LET p == Head(dups)
             t == sets.train_set
             v == sets.val_set
         IN  RemoveDuplicates(
                [train_set |-> [labels |-> MaskNe(t.labels, t.paths, p),
                                paths |-> MaskNe(t.paths, t.paths, p)],
                 val_set |-> [labels |-> MaskNe(v.labels, v.paths, p),
                              paths |-> MaskNe(v.paths, v.paths, p)]],
                Tail(dups))

\* ------------------------------------------------------------- initial states
\* the epoch column counted from 1
LogRowFromOne(e, t, v) ==
    [epoch |-> e + 1, loss |-> t.loss, score |-> t.score, ac_score |-> t.ac_score,
     f1_score |-> t.f1_score, val_loss |-> v.val_loss, val_score |-> v.val_score,
     val_ac_score |-> v.val_ac_score, val_f1_score |-> v.val_f1_score]

\* the logs a completed fold of an earlier program version left beside its
\* model_<fold>.pth: rows of the nine log columns
LogRow(e, t, v) ==
    [epoch |-> e, loss |-> t.loss, score |-> t.score, ac_score |-> t.ac_score,
     f1_score |-> t.f1_score, val_loss |-> v.val_loss, val_score |-> v.val_score,
     val_ac_score |-> v.val_ac_score, val_f1_score |-> v.val_f1_score]

ValRec(l, s, a, f) ==
    [val_loss |-> l, val_score |-> s, val_ac_score |-> a, val_f1_score |-> f]

InitLogs ==
    {<<LogRow(0, NoOut, ValRec(2, 1, 0, 0)), LogRow(1, NoOut, ValRec(1, 0, 1, 1))>>,
     <<LogRow(0, NoOut, ValRec(1, 1, 1, 0)), LogRow(1, NoOut, ValRec(1, 0, 0, 1))>>,
     <<LogRow(0, NoOut, ValRec(2, -1, 0, 1))>>}

Table(c, y) == [i \in 1..Len(y) |-> [id_code |-> i, label |-> y[i], src |-> c]]

\* inputs/strMd5.csv: diagnosis -1 is a null diagnosis (a test-set image)
Md5Row(id, n, d) == [id_code |-> id, strMd5_count |-> n, diagnosis |-> d]

InitProcess ==
    /\ run = 1
    /\ trained = {}
    /\ pc = "start"
    /\ err = ""
    /\ criterion = "unbound"
    /\ num_outputs = 0
    /\ loaded = NoLoaded
    /\ img_paths = <<>>
    /\ labels = <<>>
    /\ fold = 0
    /\ lists = EmptyLists
    /\ loaders = NoLoaders
    /\ model = NoModel
    /\ scheduler = NoScheduler
    /\ log = <<>>
    /\ epoch = 0
    /\ train_out = NoOut
    /\ val_out = NoValOut
    /\ best = Unbound
    /\ best_1 = Unbound

\* models/<name>/ before the first run: model_<f>.pth for the folds in
\* `models`, each with the log L of the run that wrote it
InitDisk(k, models, L) ==
    [args |-> [exists |-> FALSE, content |-> <<>>],
     model |-> models,
     log |-> [f \in 1..k |-> IF f \in models THEN [exists |-> TRUE, rows |-> L]
                                             ELSE NoFile],
     adj |-> [f \in 1..k |-> NoAdj],
     results |-> NoTable,
     results_1 |-> NoTable]

Args(loss, pred, sch, e, k, cv, sel, ps, rd) ==
    [name |-> "None", loss |-> loss, pred_type |-> pred, scheduler |-> sch,
     epochs |-> e, n_splits |-> k, cv |-> cv, train_dataset |-> sel,
     pseudo_labels |-> ps, remove_duplicate |-> rd]

\* one small dataset: four aptos2019 images, two of each of two grades, and
\* the split that deals them to the folds in turn
PinnedInputs(k) ==
    [aptos2019 |-> Table("aptos2019", <<0, 0, 1, 1>>),
     diabetic_retinopathy |-> Table("diabetic_retinopathy", <<0, 1, 2, 0>>),
     test |-> Table("test", <<2>>),
     md5 |-> <<>>,
     test_folds |-> [i \in 1..4 |-> ((i - 1) % k) + 1]]

\* the runs of the orchestrator: every fold count, epoch count, mode,
\* scheduler and set of folds already completed on disk
Init ==
    /\ InitProcess
    /\ \E k \in 2..MaxSplits, e \in 0..MaxEpochs, cv \in BOOLEAN,
          sch \in Schedulers, models \in SUBSET (1..MaxSplits), L \in InitLogs :
          /\ models \subseteq 1..k
          /\ args = Args("CrossEntropyLoss", "classification", sch, e, k, cv,
                         <<"aptos2019">>, FALSE, FALSE)
          /\ inputs = PinnedInputs(k)
          /\ disk = InitDisk(k, models, L)

\* the runs of every (loss kind, prediction kind) pair, one epoch per fold
InitSetup ==
    /\ InitProcess
    /\ \E loss \in LossKinds, pred \in PredTypes, cv \in BOOLEAN,
          models \in SUBSET (1..2), L \in InitLogs :
          /\ args = Args(loss, pred, "CosineAnnealingLR", 1, 2, cv,
                         <<"aptos2019">>, FALSE, FALSE)
          /\ inputs = PinnedInputs(2)
          /\ disk = InitDisk(2, models, L)

\* the runs that are terminated and started again under the same name:
\* single-fold mode, one epoch per fold
InitRerun ==
    /\ InitProcess
    /\ \E sch \in Schedulers, models \in SUBSET (1..2), L \in InitLogs :
          /\ args = Args("CrossEntropyLoss", "classification", sch, 1, 2, FALSE,
                         <<"aptos2019">>, FALSE, FALSE)
          /\ inputs = PinnedInputs(2)
          /\ disk = InitDisk(2, models, L)

\* every selection string: the names written in it, in their order
Selections ==
    {sel \in UNION {[1..n -> DatasetNames] : n \in 1..Cardinality(DatasetNames)} :
        \A i, j \in 1..Len(sel) : i # j => sel[i] # sel[j]}

AptosLabelings == {<<0, 0, 1, 1>>, <<0, 1, 0, 1>>, <<0, 0, 0, 1>>}

\* inputs/strMd5.csv: image 1 twice with a diagnosis; images 3 and 4 the
\* same picture; image 9 of the test set twice, without a diagnosis
Md5Tables ==
    {<<Md5Row(1, 2, 0), Md5Row(2, 1, 0), Md5Row(9, 2, -1)>>,
     <<Md5Row(3, 2, 1), Md5Row(9, 2, -1), Md5Row(4, 2, 1)>>}

\* the labels StratifiedKFold is given for this selection
PrimaryLabels(sel, ay, dy) ==
    IF sel = <<"diabetic_retinopathy">> THEN dy
    ELSE IF Contains(sel, "aptos2019") THEN ay
    ELSE <<>>

\* the runs of the dataset composer: every selection string, pseudo-label
\* and duplicate-removal flag, fold count and seeded split, no epoch
InitData ==
    /\ InitProcess
    /\ \E k \in 2..MaxDataSplits, sel \in Selections, ps \in BOOLEAN, rd \in BOOLEAN,
          ay \in AptosLabelings, md5 \in Md5Tables :
          /\ args = Args("CrossEntropyLoss", "classification", "CosineAnnealingLR",
                         0, k, TRUE, sel, ps, rd)
          /\ \E tf \in ValidTestFolds(PrimaryLabels(sel, ay, <<0, 1, 2, 0>>), k) :
                inputs = [aptos2019 |-> Table("aptos2019", ay),
                          diabetic_retinopathy |->
                             Table("diabetic_retinopathy", <<0, 1, 2, 0>>),
                          test |-> Table("test", <<2, 0>>),
                          md5 |-> IF rd THEN md5 ELSE <<>>,
                          test_folds |-> tf]
          /\ disk = InitDisk(k, {}, <<>>)

\* ------------------------------------------------------------- setup
\* the default name filled in after the arguments were dumped
StartNameAfterDump ==
    /\ pc = "start"
    /\ disk' = [disk EXCEPT !.args = [exists |-> TRUE, content |-> args]]
    /\ args' = [args EXCEPT !.name = IF args.name = "None" THEN "default" ELSE @]
    /\ pc' = "criterion"
    /\ UNCHANGED <<inputs, run, trained, err, criterion, num_outputs, loaded,
                   img_paths, labels, fold, lists, loaders, model, scheduler, log,
                   epoch, train_out, val_out, best, best_1>>

\* lines 211-230: default name, models/<name>/, args.txt and args.pkl
Start ==
    /\ pc = "start"
    /\ args' = [args EXCEPT !.name = IF args.name = "None" THEN "default" ELSE @]
    /\ disk' = [disk EXCEPT !.args = [exists |-> TRUE, content |-> args']]
    /\ pc' = "criterion"
    /\ UNCHANGED <<inputs, run, trained, err, criterion, num_outputs, loaded,
                   img_paths, labels, fold, lists, loaders, model, scheduler, log,
                   epoch, train_out, val_out, best, best_1>>

\* lines 232-244: a loss object, or a dict of two for the multitask loss
CriterionOf(loss) ==
    IF loss \in {"CrossEntropyLoss", "FocalLoss", "MSELoss"} THEN "callable"
    ELSE IF loss = "multitask" THEN "dict"
    ELSE "NotImplementedError"

SelectCriterion ==
    /\ pc = "criterion"
    /\ IF CriterionOf(args.loss) = "NotImplementedError"
       THEN /\ pc' = "failed"
            /\ err' = "NotImplementedError"
            /\ UNCHANGED criterion
       ELSE /\ criterion' = CriterionOf(args.loss)
            /\ pc' = "num_outputs"
            /\ UNCHANGED err
    /\ UNCHANGED <<args, inputs, disk, run, trained, num_outputs, loaded, img_paths,
                   labels, fold, lists, loaders, model, scheduler, log, epoch,
                   train_out, val_out, best, best_1>>

\* lines 246-253; 0 stands for the NotImplementedError of line 253.  The
\* third test reads args.loss, not args.pred_type
NumOutputsOf(pred_type, loss) ==
    IF pred_type = "classification" THEN 5
    ELSE IF pred_type = "regression" THEN 1
    ELSE IF loss = "multitask" THEN 6
    ELSE 0

SelectNumOutputs ==
    /\ pc = "num_outputs"
    /\ IF NumOutputsOf(args.pred_type, args.loss) = 0
       THEN /\ pc' = "failed"
            /\ err' = "NotImplementedError"
            /\ UNCHANGED num_outputs
       ELSE /\ num_outputs' = NumOutputsOf(args.pred_type, args.loss)
            /\ pc' = "load"
            /\ UNCHANGED err
    /\ UNCHANGED <<args, inputs, disk, run, trained, criterion, loaded, img_paths,
                   labels, fold, lists, loaders, model, scheduler, log, epoch,
                   train_out, val_out, best, best_1>>

\* lines 291-314: each dataset named in the selection is read
LoadDatasets ==
    /\ pc = "load"
    /\ loaded' =
          [aptos2019 |-> Contains(args.train_dataset, "aptos2019"),
           diabetic_retinopathy |-> Contains(args.train_dataset, "diabetic_retinopathy"),
           img_paths |-> FALSE,
           aptos2019_img_paths |->
              IF Contains(args.train_dataset, "aptos2019")
              THEN PathsOf("aptos2019", Column(inputs.aptos2019, "id_code")) ELSE <<>>,
           aptos2019_labels |->
              IF Contains(args.train_dataset, "aptos2019")
              THEN Column(inputs.aptos2019, "label") ELSE <<>>,
           diabetic_retinopathy_img_paths |->
              IF Contains(args.train_dataset, "diabetic_retinopathy")
              THEN PathsOf("diabetic_retinopathy",
                           Column(inputs.diabetic_retinopathy, "id_code"))
              ELSE <<>>,
           diabetic_retinopathy_labels |->
              IF Contains(args.train_dataset, "diabetic_retinopathy")
              THEN Column(inputs.diabetic_retinopathy, "label") ELSE <<>>]
    /\ pc' = "compose"
    /\ UNCHANGED <<args, inputs, disk, run, trained, err, criterion, num_outputs,
                   img_paths, labels, fold, lists, loaders, model, scheduler, log,
                   epoch, train_out, val_out, best, best_1>>

\* lines 316-340: which branch composes the folds; "none" leaves img_paths
\* and labels unbound (the final else is commented out)
Branch(sel) ==
    IF sel = <<"aptos2019">> THEN "aptos2019"
    ELSE IF sel = <<"diabetic_retinopathy">> THEN "diabetic_retinopathy"
    ELSE IF Contains(sel, "diabetic_retinopathy") /\ Contains(sel, "aptos2019")
         THEN "both"
    ELSE "none"

ComposeFolds(sel, ld, test_folds, n_splits) ==
    IF Branch(sel) = "aptos2019"
    THEN SingleFolds(ld.aptos2019_img_paths, ld.aptos2019_labels, test_folds, n_splits)
    ELSE IF Branch(sel) = "diabetic_retinopathy"
    THEN SingleFolds(ld.diabetic_retinopathy_img_paths,
                     ld.diabetic_retinopathy_labels, test_folds, n_splits)
    ELSE MixedFolds(ld.aptos2019_img_paths, ld.aptos2019_labels,
                    ld.diabetic_retinopathy_img_paths,
                    ld.diabetic_retinopathy_labels, test_folds, n_splits)

KFoldCompose ==
    /\ pc = "compose"
    /\ IF Branch(args.train_dataset) = "none"
       THEN UNCHANGED <<loaded, img_paths, labels>>
       ELSE LET c == ComposeFolds(args.train_dataset, loaded, inputs.test_folds,
                                  args.n_splits)
            IN  /\ img_paths' = c.img_paths
                /\ labels' = c.labels
                /\ loaded' = [loaded EXCEPT !.img_paths = TRUE]
    /\ pc' = "pseudo"
    /\ UNCHANGED <<args, inputs, disk, run, trained, err, criterion, num_outputs,
                   fold, lists, loaders, model, scheduler, log, epoch, train_out,
                   val_out, best, best_1>>

\* lines 342-380: pseudo-labelled samples go onto every training side; the
\* summary lists are created; zip(img_paths, labels) is evaluated.  Lines
\* 353 and 380 raise NameError when no branch bound img_paths
PseudoLabels ==
    /\ pc = "pseudo"
    /\ IF ~loaded.img_paths
       THEN /\ pc' = "failed"
            /\ err' = "NameError"
            /\ UNCHANGED <<img_paths, labels, lists>>
       ELSE /\ img_paths' =
                  IF args.pseudo_labels
                  THEN [f \in 1..Len(img_paths) |->
                          AppendPseudo(img_paths[f],
                             PathsOf("test", Column(inputs.test, "id_code")))]
                  ELSE img_paths
            /\ labels' =
                  IF args.pseudo_labels
                  THEN [f \in 1..Len(labels) |->
                          AppendPseudo(labels[f], Column(inputs.test, "label"))]
                  ELSE labels
            /\ lists' = EmptyLists
            /\ pc' = "fold_loop"
            /\ UNCHANGED err
    /\ UNCHANGED <<args, inputs, disk, run, trained, criterion, num_outputs, loaded,
                   fold, loaders, model, scheduler, log, epoch, train_out, val_out,
                   best, best_1>>

\* ------------------------------------------------------------- fold loop
\* argmax written for argmin: the first row of greatest val_loss
ArgMax(rows) ==
    CHOOSE i \in 1..Len(rows) :
        /\ \A j \in 1..Len(rows) : rows[j].val_loss <= rows[i].val_loss
        /\ \A j \in 1..(i - 1) : rows[j].val_loss < rows[i].val_loss

\* log['val_loss'].values.argmin(): the first row of least val_loss
ArgMin(rows) ==
    CHOOSE i \in 1..Len(rows) :
        /\ \A j \in 1..Len(rows) : rows[j].val_loss >= rows[i].val_loss
        /\ \A j \in 1..(i - 1) : rows[j].val_loss > rows[i].val_loss

\* lines 386-389: what the skip path appends
AppendSkipped(l, f, row) ==
    [l EXCEPT !.folds = Append(@, FoldStr(f)),
              !.best_losses = Append(@, row.val_loss),
              !.best_scores = Append(@, row.val_score),
              !.best_ac_scores = Append(@, row.val_ac_score)]

\* lines 380-390: the next fold is taken, or the loop ends; a fold whose
\* model_<fold+1>.pth exists is reported from its log and skipped with
\* `continue`, which goes to the next fold without passing line 640
FoldEnter ==
    /\ pc = "fold_loop"
    /\ IF fold >= Len(img_paths)
       THEN /\ pc' = "done"
            /\ UNCHANGED <<err, log, best, lists, fold>>
       ELSE IF (fold + 1) \notin disk.model
       THEN /\ pc' = "setup"
            /\ UNCHANGED <<err, log, best, lists, fold>>
       ELSE IF ~disk.log[fold + 1].exists
       THEN /\ pc' = "failed"
            /\ err' = "FileNotFoundError"
            /\ UNCHANGED <<log, best, lists, fold>>
       ELSE IF disk.log[fold + 1].rows = <<>>
       THEN /\ pc' = "failed"
            /\ err' = "ValueError"
            /\ log' = disk.log[fold + 1].rows
            /\ UNCHANGED <<best, lists, fold>>
       ELSE LET rows == disk.log[fold + 1].rows
                row == rows[ArgMin(rows)]
            IN  /\ log' = rows
                /\ best' = [best EXCEPT !.loss = row.val_loss,
                                        !.score = row.val_score,
                                        !.ac_score = row.val_ac_score]
                /\ lists' = AppendSkipped(lists, fold, row)
                /\ fold' = fold + 1
                /\ pc' = "fold_loop"
                /\ UNCHANGED err
    /\ UNCHANGED <<args, inputs, disk, run, trained, criterion, num_outputs, loaded,
                   img_paths, labels, loaders, model, scheduler, epoch, train_out,
                   val_out, best_1>>

\* the flagged duplicates dropped from the training side only
FoldSetsTrainOnly(pair_paths, pair_labels, remove_duplicate, dups) ==
    LET sets == [train_set |-> [paths |-> pair_paths[1], labels |-> pair_labels[1]],
                 val_set |-> [paths |-> pair_paths[2], labels |-> pair_labels[2]]]
    IN  IF remove_duplicate
        THEN [RemoveDuplicates(sets, dups) EXCEPT !.val_set = sets.val_set]
        ELSE sets

\* lines 380 and 392-400: this fold's split, without the flagged duplicates
\* when asked for
FoldSets(pair_paths, pair_labels, remove_duplicate, dups) ==
    LET sets == [train_set |-> [paths |-> pair_paths[1], labels |-> pair_labels[1]],
                 val_set |-> [paths |-> pair_paths[2], labels |-> pair_labels[2]]]
    IN  IF remove_duplicate THEN RemoveDuplicates(sets, dups) ELSE sets

\* lines 392-502: the fold's data sets, model, optimizer, scheduler, empty
\* log and both trackers; line 394 reads aptos2019_dir
FoldSetup ==
    /\ pc = "setup"
    /\ IF args.remove_duplicate /\ ~loaded.aptos2019
       THEN /\ pc' = "failed"
            /\ err' = "NameError"
            /\ UNCHANGED <<loaders, model, scheduler, log, epoch, best, best_1>>
       ELSE /\ loaders' = FoldSets(img_paths[fold + 1], labels[fold + 1],
                                   args.remove_duplicate,
                                   PathsOf("aptos2019", DuplicateIds(inputs.md5)))
            /\ model' = [built |-> TRUE, fold |-> fold + 1, forward |-> FALSE,
                         cache |-> "held"]
            /\ scheduler' = [kind |-> args.scheduler, steps |-> 0, last |-> 0]
            /\ log' = <<>>
            /\ best' = InitialBest
            /\ best_1' = InitialBest
            /\ epoch' = 0
            /\ pc' = IF args.epochs > 0 THEN "train" ELSE "fold_end"
            /\ UNCHANGED err
    /\ UNCHANGED <<args, inputs, disk, run, trained, criterion, num_outputs, loaded,
                   img_paths, labels, fold, lists, train_out, val_out>>

\* lines 142-149 and 188-195: the loss call the prediction kind selects works
\* on the criterion that was built; a dict is not callable and a loss
\* object has no items
LossCallFails(pred_type, crit) ==
    IF pred_type = "multitask" THEN crit # "dict" ELSE crit # "callable"

\* lines 508-509, train(): one pass over the train loader.  The first batch
\* calls the model and then the loss; with no batch line 168 reads an
\* unbound adj_weight; a batch can fail in the device
TrainPass ==
    /\ pc = "train"
    /\ \E out \in TrainOutcomes, ok \in BOOLEAN :
          IF loaders.train_set.paths = <<>>
          THEN /\ pc' = "failed"
               /\ err' = "UnboundLocalError"
               /\ UNCHANGED <<model, train_out>>
          ELSE IF LossCallFails(args.pred_type, criterion)
          THEN /\ pc' = "failed"
               /\ err' = "TypeError"
               /\ model' = [model EXCEPT !.forward = TRUE]
               /\ UNCHANGED train_out
          ELSE IF ~ok
          THEN /\ pc' = "failed"
               /\ err' = "RuntimeError"
               /\ model' = [model EXCEPT !.forward = TRUE]
               /\ UNCHANGED train_out
          ELSE /\ train_out' = out
               /\ model' = [model EXCEPT !.forward = TRUE]
               /\ pc' = "validate"
               /\ UNCHANGED err
    /\ UNCHANGED <<args, inputs, disk, run, trained, criterion, num_outputs, loaded,
                   img_paths, labels, fold, lists, loaders, scheduler, log, epoch,
                   val_out, best, best_1>>

\* line 512, validate(): one pass over the val loader; adj is the output of
\* this pass (of this run, fold and epoch)
ValidatePass ==
    /\ pc = "validate"
    /\ \E v \in ValOutcomes, ok \in BOOLEAN :
          IF loaders.val_set.paths = <<>>
          THEN /\ pc' = "failed"
               /\ err' = "UnboundLocalError"
               /\ UNCHANGED val_out
          ELSE IF ~ok
          THEN /\ pc' = "failed"
               /\ err' = "RuntimeError"
               /\ UNCHANGED val_out
          ELSE /\ val_out' = [val_loss |-> v.val_loss, val_score |-> v.val_score,
                              val_ac_score |-> v.val_ac_score,
                              val_f1_score |-> v.val_f1_score,
                              adj |-> [run |-> run, fold |-> fold + 1, epoch |-> epoch]]
               /\ pc' = "scheduler"
               /\ UNCHANGED err
    /\ UNCHANGED <<args, inputs, disk, run, trained, criterion, num_outputs, loaded,
                   img_paths, labels, fold, lists, loaders, model, scheduler, log,
                   epoch, train_out, best, best_1>>

\* only the cosine-annealing scheduler stepped
SchedulerStepCosineOnly ==
    /\ pc = "scheduler"
    /\ scheduler' =
          IF scheduler.kind = "CosineAnnealingLR"
          THEN [scheduler EXCEPT !.steps = @ + 1]
          ELSE scheduler
    /\ pc' = "log"
    /\ UNCHANGED <<args, inputs, disk, run, trained, err, criterion, num_outputs,
                   loaded, img_paths, labels, fold, lists, loaders, model, log, epoch,
                   train_out, val_out, best, best_1>>

\* lines 516-519
SchedulerStep ==
    /\ pc = "scheduler"
    /\ scheduler' =
          [scheduler EXCEPT !.steps = @ + 1,
                            !.last = IF scheduler.kind = "ReduceLROnPlateau"
                                     THEN val_out.val_loss ELSE @]
    /\ pc' = "log"
    /\ UNCHANGED <<args, inputs, disk, run, trained, err, criterion, num_outputs,
                   loaded, img_paths, labels, fold, lists, loaders, model, log, epoch,
                   train_out, val_out, best, best_1>>

\* what a write of a file can do: complete; raise OSError in open(), the
\* file as it was; raise OSError after open() has truncated the file, part
\* of the new content written
WriteOutcomes == {"written", "unchanged", "partial"}

\* lines 524-534: the row is appended and the whole table written with
\* to_csv, which opens log_<fold+1>.csv for writing and writes the rows in
\* their order
LogEpoch ==
    /\ pc = "log"
    /\ log' = Append(log, LogRow(epoch, train_out, val_out))
    /\ \E io \in WriteOutcomes, n \in 0..Len(log) :
          IF io = "written"
          THEN /\ disk' = [disk EXCEPT !.log[fold + 1] = [exists |-> TRUE, rows |-> log']]
               /\ pc' = "rule_a"
               /\ UNCHANGED err
          ELSE IF io = "unchanged"
          THEN /\ pc' = "failed"
               /\ err' = "OSError"
               /\ UNCHANGED disk
          ELSE /\ disk' = [disk EXCEPT !.log[fold + 1] =
                              [exists |-> TRUE, rows |-> SubSeq(log', 1, n)]]
               /\ pc' = "failed"
               /\ err' = "OSError"
    /\ UNCHANGED <<args, inputs, run, trained, criterion, num_outputs, loaded,
                   img_paths, labels, fold, lists, loaders, model, scheduler, epoch,
                   train_out, val_out, best, best_1>>

\* >= written for >: a later epoch of equal score replaces the snapshot
RuleAOrEqual(b, v, e) ==
    IF v.val_score >= b.score
    THEN [loss |-> v.val_loss, score |-> v.val_score, ac_score |-> v.val_ac_score,
          f1_score |-> v.val_f1_score, epoch |-> e]
    ELSE b

\* the four metrics replaced, best_epoch left as it was
RuleAKeepsEpoch(b, v, e) ==
    IF v.val_score > b.score
    THEN [loss |-> v.val_loss, score |-> v.val_score, ac_score |-> v.val_ac_score,
          f1_score |-> v.val_f1_score, epoch |-> b.epoch]
    ELSE b

\* lines 536-544: the primary tracker, keyed by the ranking score
RuleA(b, v, e) ==
    IF v.val_score > b.score
    THEN [loss |-> v.val_loss, score |-> v.val_score, ac_score |-> v.val_ac_score,
          f1_score |-> v.val_f1_score, epoch |-> e]
    ELSE b

UpdateRuleA ==
    /\ pc = "rule_a"
    /\ \E io \in WriteOutcomes :
          IF ~(val_out.val_score > best.score)
          THEN /\ best' = RuleA(best, val_out, epoch)
               /\ pc' = "rule_b"
               /\ UNCHANGED <<disk, err>>
          ELSE IF io = "written"
          THEN /\ disk' = [disk EXCEPT !.adj[fold + 1] =
                              [exists |-> TRUE, adj |-> val_out.adj]]
               /\ best' = RuleA(best, val_out, epoch)
               /\ pc' = "rule_b"
               /\ UNCHANGED err
          ELSE IF io = "unchanged"
          THEN /\ pc' = "failed"
               /\ err' = "OSError"
               /\ UNCHANGED <<disk, best>>
          ELSE /\ disk' = [disk EXCEPT !.adj[fold + 1] = [exists |-> TRUE, adj |-> NoAdj]]
               /\ pc' = "failed"
               /\ err' = "OSError"
               /\ UNCHANGED best
    /\ UNCHANGED <<args, inputs, run, trained, criterion, num_outputs, loaded,
                   img_paths, labels, fold, lists, loaders, model, scheduler, log,
                   epoch, train_out, val_out, best_1>>

\* the accuracy compared with the primary tracker's best_ac_score
RuleBAgainstPrimary(b1, v, e) ==
    IF v.val_ac_score > best.ac_score
    THEN [loss |-> v.val_loss, score |-> v.val_score, ac_score |-> v.val_ac_score,
          f1_score |-> v.val_f1_score, epoch |-> e]
    ELSE b1

\* the secondary snapshot replaced in every epoch
RuleBEveryEpoch(b1, v, e) ==
    [loss |-> v.val_loss, score |-> v.val_score, ac_score |-> v.val_ac_score,
     f1_score |-> v.val_f1_score, epoch |-> e]

\* lines 545-552: the secondary tracker, keyed by the accuracy
RuleB(b1, v, e) ==
    IF v.val_ac_score > b1.ac_score
    THEN [loss |-> v.val_loss, score |-> v.val_score, ac_score |-> v.val_ac_score,
          f1_score |-> v.val_f1_score, epoch |-> e]
    ELSE b1

\* the epoch loop stepping by two
UpdateRuleBStepTwo ==
    /\ pc = "rule_b"
    /\ best_1' = RuleB(best_1, val_out, epoch)
    /\ epoch' = epoch + 2
    /\ pc' = IF epoch + 2 < args.epochs THEN "train" ELSE "fold_end"
    /\ UNCHANGED <<args, inputs, disk, run, trained, err, criterion, num_outputs,
                   loaded, img_paths, labels, fold, lists, loaders, model, scheduler,
                   log, train_out, val_out, best>>

\* lines 545-552 and the step of `for epoch in range(args.epochs)`
UpdateRuleB ==
    /\ pc = "rule_b"
    /\ best_1' = RuleB(best_1, val_out, epoch)
    /\ epoch' = epoch + 1
    /\ pc' = IF epoch + 1 < args.epochs THEN "train" ELSE "fold_end"
    /\ UNCHANGED <<args, inputs, disk, run, trained, err, criterion, num_outputs,
                   loaded, img_paths, labels, fold, lists, loaders, model, scheduler,
                   log, train_out, val_out, best>>

\* lines 564-575: a trained fold appends to all eleven lists
AppendTrained(l, f, b, b1) ==
    [folds |-> Append(l.folds, FoldStr(f)),
     best_losses |-> Append(l.best_losses, b.loss),
     best_scores |-> Append(l.best_scores, b.score),
     best_ac_scores |-> Append(l.best_ac_scores, b.ac_score),
     best_f1_scores |-> Append(l.best_f1_scores, b.f1_score),
     best_epochs |-> Append(l.best_epochs, b.epoch),
     best_losses_1 |-> Append(l.best_losses_1, b1.loss),
     best_scores_1 |-> Append(l.best_scores_1, b1.score),
     best_ac_scores_1 |-> Append(l.best_ac_scores_1, b1.ac_score),
     best_f1_scores_1 |-> Append(l.best_f1_scores_1, b1.f1_score),
     best_epochs_1 |-> Append(l.best_epochs_1, b1.epoch)]

\* pd.DataFrame of a dict of columns raises ValueError unless all columns
\* have one length
SameLength(cols) == \A i, j \in 1..Len(cols) : Len(cols[i]) = Len(cols[j])

\* the mean row written first
SummaryTableMeanFirst(folds, losses, scores, acs, f1s, epochs) ==
    [exists |-> TRUE,
     fold |-> <<"mean">> \o folds,
     best_loss |-> <<Mean(losses)>> \o Cells(losses),
     best_score |-> <<Mean(scores)>> \o Cells(scores),
     best_ac_score |-> <<Mean(acs)>> \o Cells(acs),
     best_f1_score |-> <<Mean(f1s)>> \o Cells(f1s),
     best_epoch |-> <<Blank>> \o Cells(epochs)]

\* lines 577-584 and 586-593: the data rows and the closing mean row
SummaryTable(folds, losses, scores, acs, f1s, epochs) ==
    [exists |-> TRUE,
     fold |-> Append(folds, "mean"),
     best_loss |-> Append(Cells(losses), Mean(losses)),
     best_score |-> Append(Cells(scores), Mean(scores)),
     best_ac_score |-> Append(Cells(acs), Mean(acs)),
     best_f1_score |-> Append(Cells(f1s), Mean(f1s)),
     best_epoch |-> Append(Cells(epochs), Blank)]

\* line 640: single-fold mode leaves the loop after a trained fold
AfterFold(cv) == IF ~cv THEN "done" ELSE "fold_loop"

\* the end of a fold without torch.cuda.empty_cache()
FoldFinishNoRelease ==
    /\ pc = "fold_end"
    /\ lists' = AppendTrained(lists, fold, best, best_1)
    /\ IF ~SameLength(<<lists'.folds, lists'.best_losses, lists'.best_scores,
                        lists'.best_ac_scores, lists'.best_f1_scores,
                        lists'.best_epochs>>)
          \/ ~SameLength(<<lists'.folds, lists'.best_losses_1, lists'.best_scores_1,
                           lists'.best_ac_scores_1, lists'.best_f1_scores_1,
                           lists'.best_epochs_1>>)
       THEN /\ pc' = "failed"
            /\ err' = "ValueError"
            /\ UNCHANGED <<disk, model, fold, trained>>
       ELSE /\ disk' =
                  [disk EXCEPT
                     !.results = SummaryTable(lists'.folds, lists'.best_losses,
                                    lists'.best_scores, lists'.best_ac_scores,
                                    lists'.best_f1_scores, lists'.best_epochs),
                     !.results_1 = SummaryTable(lists'.folds, lists'.best_losses_1,
                                    lists'.best_scores_1, lists'.best_ac_scores_1,
                                    lists'.best_f1_scores_1, lists'.best_epochs_1)]
            /\ model' = model
            /\ trained' = trained \cup {fold + 1}
            /\ fold' = fold + 1
            /\ pc' = AfterFold(args.cv)
            /\ UNCHANGED err
    /\ UNCHANGED <<args, inputs, run, criterion, num_outputs, loaded, img_paths,
                   labels, loaders, scheduler, log, epoch, train_out, val_out, best,
                   best_1>>

\* lines 554-641: the fold's two snapshots go to the lists, both tables are
\* rebuilt and written, the device cache is released
FoldFinish ==
    /\ pc = "fold_end"
    /\ lists' = AppendTrained(lists, fold, best, best_1)
    /\ IF ~SameLength(<<lists'.folds, lists'.best_losses, lists'.best_scores,
                        lists'.best_ac_scores, lists'.best_f1_scores,
                        lists'.best_epochs>>)
          \/ ~SameLength(<<lists'.folds, lists'.best_losses_1, lists'.best_scores_1,
                           lists'.best_ac_scores_1, lists'.best_f1_scores_1,
                           lists'.best_epochs_1>>)
       THEN /\ pc' = "failed"
            /\ err' = "ValueError"
            /\ UNCHANGED <<disk, model, fold, trained>>
       ELSE /\ disk' =
                  [disk EXCEPT
                     !.results = SummaryTable(lists'.folds, lists'.best_losses,
                                    lists'.best_scores, lists'.best_ac_scores,
                                    lists'.best_f1_scores, lists'.best_epochs),
                     !.results_1 = SummaryTable(lists'.folds, lists'.best_losses_1,
                                    lists'.best_scores_1, lists'.best_ac_scores_1,
                                    lists'.best_f1_scores_1, lists'.best_epochs_1)]
            /\ model' = [model EXCEPT !.cache = "released"]
            /\ trained' = trained \cup {fold + 1}
            /\ fold' = fold + 1
            /\ pc' = AfterFold(args.cv)
            /\ UNCHANGED err
    /\ UNCHANGED <<args, inputs, run, criterion, num_outputs, loaded, img_paths,
                   labels, loaders, scheduler, log, epoch, train_out, val_out, best,
                   best_1>>

\* ------------------------------------------------------------- next-state
Next ==
    \/ Start
    \/ SelectCriterion
    \/ SelectNumOutputs
    \/ LoadDatasets
    \/ KFoldCompose
    \/ PseudoLabels
    \/ FoldEnter
    \/ FoldSetup
    \/ TrainPass
    \/ ValidatePass
    \/ SchedulerStep
    \/ LogEpoch
    \/ UpdateRuleA
    \/ UpdateRuleB
    \/ FoldFinish

Spec == Init /\ [][Next]_vars

\* with args.epochs = 0 the body of the epoch loop never runs: the steps a
\* run of the dataset composer can take
NextData ==
    \/ Start
    \/ SelectCriterion
    \/ SelectNumOutputs
    \/ LoadDatasets
    \/ KFoldCompose
    \/ PseudoLabels
    \/ FoldEnter
    \/ FoldSetup
    \/ FoldFinish

SpecData == InitData /\ [][NextData]_vars

SpecSetup == InitSetup /\ [][Next]_vars

\* the process is terminated from outside, anywhere, and main() is run again
\* with the same command line: the files stay, the process starts afresh
Rerun ==
    /\ pc # "start"
    /\ run < MaxRuns
    /\ run' = run + 1
    /\ args' = [args EXCEPT !.name = "None"]
    /\ pc' = "start"
    /\ err' = ""
    /\ criterion' = "unbound"
    /\ num_outputs' = 0
    /\ loaded' = NoLoaded
    /\ img_paths' = <<>>
    /\ labels' = <<>>
    /\ fold' = 0
    /\ lists' = EmptyLists
    /\ loaders' = NoLoaders
    /\ model' = NoModel
    /\ scheduler' = NoScheduler
    /\ log' = <<>>
    /\ epoch' = 0
    /\ train_out' = NoOut
    /\ val_out' = NoValOut
    /\ best' = Unbound
    /\ best_1' = Unbound
    /\ UNCHANGED <<inputs, disk, trained>>

NextRerun == Next \/ Rerun

SpecRerun == InitRerun /\ [][NextRerun]_vars

\* ------------------------------------------------------------- properties
\* the positions inside the body of the fold loop
FoldBody ==
    {"setup", "train", "validate", "scheduler", "log", "rule_a", "rule_b", "fold_end"}

Last(s) == s[Len(s)]

\* C1: in single-fold mode (cv false) no fold after the first is entered:
\* the body of the fold loop runs for fold index 0 only, and only fold "1"
\* is ever reported, whatever the fold count and whatever is on disk.
C1_SingleFoldOnly ==
    ~args.cv =>
        /\ pc \in FoldBody => fold = 0
        /\ \A i \in 1..Len(lists.folds) : lists.folds[i] = "1"

\* the mean cell of a column is the arithmetic mean of its data cells
IsMeanOf(cell, cells) ==
    IF \E i \in 1..Len(cells) : cells[i] = Num(Inf)
    THEN cell = Num(Inf)
    ELSE /\ cell.den > 0
         /\ cell.num * Len(cells) = cell.den * Sum([i \in 1..Len(cells) |-> cells[i].num])

\* a summary table with exactly i data rows and the mean row after them
TableOfFolds(t, i) ==
    /\ t.exists
    /\ Len(t.fold) = i + 1
    /\ t.fold[i + 1] = "mean"
    /\ \A c \in {"best_loss", "best_score", "best_ac_score", "best_f1_score"} :
          /\ Len(t[c]) = i + 1
          /\ IsMeanOf(t[c][i + 1], SubSeq(t[c], 1, i))
    /\ Len(t.best_epoch) = i + 1

\* C2: after fold i completes, trained or resume-skipped, both summary
\* tables on disk hold exactly i data rows and the mean row, and every
\* numeric cell of the mean row is the arithmetic mean of its column.
C2_SummaryAfterEveryFold ==
    (pc \in {"fold_loop", "done"} /\ fold >= 1) =>
        /\ TableOfFolds(disk.results, fold)
        /\ TableOfFolds(disk.results_1, fold)

\* C3: a fold that a run of this name trained to the end is never trained
\* again by a later run: the re-run finds its artifact and skips it.
C3_TrainedFoldIsSkipped ==
    pc \in FoldBody => (fold + 1) \notin trained

\* C4: a fold whose model_<fold>.pth exists on entry goes straight to the
\* next fold; what it reports is a row of its persisted log whose val_loss
\* is the least of the log; no data set, model or scheduler is built, no
\* epoch runs and nothing is written.
C4_ResumeIdempotence ==
    [][(pc = "fold_loop" /\ fold < Len(img_paths) /\ (fold + 1) \in disk.model) =>
          /\ pc' = "fold_loop"
          /\ fold' = fold + 1
          /\ lists'.folds = Append(lists.folds, FoldStr(fold))
          /\ \E i \in 1..Len(disk.log[fold + 1].rows) :
                LET rows == disk.log[fold + 1].rows
                IN  /\ \A j \in 1..Len(rows) : rows[i].val_loss <= rows[j].val_loss
                    /\ lists'.best_losses = Append(lists.best_losses, rows[i].val_loss)
                    /\ lists'.best_scores = Append(lists.best_scores, rows[i].val_score)
                    /\ lists'.best_ac_scores =
                          Append(lists.best_ac_scores, rows[i].val_ac_score)
          /\ UNCHANGED <<loaders, model, scheduler, epoch, train_out, val_out, disk>>
      ]_vars

\* fold 1 was skipped and its reported row is the second row of its log
C4_Witness ==
    /\ pc = "fold_loop"
    /\ fold = 1
    /\ 1 \in disk.model
    /\ ~model.built
    /\ Len(disk.log[1].rows) = 2
    /\ disk.log[1].rows[1].val_loss = 2
    /\ lists.best_losses = <<1>>
    /\ lists.best_scores = <<disk.log[1].rows[2].val_score>>

\* the epoch of the first row whose field c is the greatest of the log
FirstBestEpoch(rows, c, e) ==
    \E i \in 1..Len(rows) :
        /\ rows[i].epoch = e
        /\ \A j \in 1..Len(rows) : rows[j][c] <= rows[i][c]
        /\ \A j \in 1..(i - 1) : rows[j][c] < rows[i][c]

\* C5: when the epochs of a trained fold are over, and some epoch had a
\* score above 0 and some epoch an accuracy above 0, the primary snapshot
\* is the first epoch of the highest validation score and the secondary
\* snapshot the first epoch of the highest validation accuracy.
C5_TrackersIndependent ==
    (/\ pc = "fold_end"
     /\ \E i \in 1..Len(log) : log[i].val_score > 0
     /\ \E i \in 1..Len(log) : log[i].val_ac_score > 0) =>
        /\ FirstBestEpoch(log, "val_score", best.epoch)
        /\ best.score = log[best.epoch + 1].val_score
        /\ FirstBestEpoch(log, "val_ac_score", best_1.epoch)
        /\ best_1.ac_score = log[best_1.epoch + 1].val_ac_score

\* the two trackers chose different epochs
C5_Witness ==
    /\ pc = "fold_end"
    /\ best.score > 0
    /\ best_1.ac_score > 0
    /\ best.epoch = 0
    /\ best_1.epoch = 1

\* C6: a (loss kind, prediction kind) pair whose loss call the epoch driver
\* cannot execute is rejected during setup: no model is ever constructed
\* and no batch is ever given to a model under such a configuration.
C6_UnsupportedPairRejectedInSetup ==
    LossCallFails(args.pred_type, CriterionOf(args.loss)) =>
        /\ ~model.built
        /\ ~model.forward
        /\ pc \notin FoldBody

\* the selections the composer supports: one of the two datasets alone, or
\* the two together
SupportedSelection(sel) ==
    sel \in {<<"aptos2019">>, <<"diabetic_retinopathy">>,
             <<"aptos2019", "diabetic_retinopathy">>,
             <<"diabetic_retinopathy", "aptos2019">>}

\* C7: a dataset selection other than the first dataset alone, the second
\* alone or both together is rejected before any fold starts: the fold
\* loop is never reached under it.
C7_UnsupportedSelectionRejected ==
    ~SupportedSelection(args.train_dataset) =>
        pc \notin (FoldBody \cup {"fold_loop", "done"})

\* the primary dataset of a selection: the one StratifiedKFold splits
PrimaryName(sel) ==
    IF sel = <<"diabetic_retinopathy">> THEN "diabetic_retinopathy" ELSE "aptos2019"

PrimaryPaths == PathsOf(PrimaryName(args.train_dataset),
                        Column(inputs[PrimaryName(args.train_dataset)], "id_code"))

SecondaryPaths == PathsOf("diabetic_retinopathy",
                          Column(inputs.diabetic_retinopathy, "id_code"))

PseudoPaths == PathsOf("test", Column(inputs.test, "id_code"))

TwoDatasets ==
    /\ Contains(args.train_dataset, "aptos2019")
    /\ Contains(args.train_dataset, "diabetic_retinopathy")

\* the pseudo-labelled samples have been appended
PseudoDone == args.pseudo_labels /\ pc # "pseudo"

\* C8: in a two-dataset configuration the split is the split of the primary
\* dataset (every fold's train_idx and val_idx index the primary dataset
\* and together cover it), and the mixing step gives every fold a training
\* split of (primary train-fold size) + (whole secondary dataset size)
\* samples and a validation split of the primary held-out size; these are
\* the sizes the fold loop receives when no pseudo-labels are appended.
C8_MixingRule ==
    (TwoDatasets /\ loaded.img_paths /\ ~PseudoDone) =>
        /\ Len(img_paths) = args.n_splits
        /\ \A f \in 1..Len(img_paths) :
              LET tr == TrainIdx(inputs.test_folds, f)
                  va == ValIdx(inputs.test_folds, f)
              IN  /\ Len(tr) + Len(va) = Len(inputs.aptos2019)
                  /\ Len(img_paths[f][1]) = Len(tr) + Len(inputs.diabetic_retinopathy)
                  /\ Len(labels[f][1]) = Len(tr) + Len(inputs.diabetic_retinopathy)
                  /\ Len(img_paths[f][2]) = Len(va)
                  /\ Len(labels[f][2]) = Len(va)
                  /\ \A i \in 1..Len(tr) : img_paths[f][1][i].dir = "aptos2019"
                  /\ \A i \in 1..Len(va) : img_paths[f][2][i].dir = "aptos2019"

\* the mixing step has run for two datasets and three folds
C8_Witness ==
    /\ TwoDatasets
    /\ pc = "pseudo"
    /\ loaded.img_paths
    /\ args.n_splits = 3
    /\ Len(img_paths[1][1]) = Len(TrainIdx(inputs.test_folds, 1)) + 4
    /\ Len(img_paths[1][2]) = Len(ValIdx(inputs.test_folds, 1))

\* the held-out partition of the primary dataset for fold f
HeldOut(f) == {PrimaryPaths[i] : i \in Range(ValIdx(inputs.test_folds, f))}

\* C9: whatever the flags, every fold's validation split holds only samples
\* of the primary dataset's held-out partition for that fold, in the
\* composed list and in the data set built for the fold; the secondary
\* dataset's samples and the pseudo-labelled samples are in every fold's
\* training split and in no validation split.
C9_ValidationIsPrimaryHeldOut ==
    loaded.img_paths =>
        /\ \A f \in 1..Len(img_paths) :
              /\ Range(img_paths[f][2]) \subseteq HeldOut(f)
              /\ TwoDatasets => Range(SecondaryPaths) \subseteq Range(img_paths[f][1])
              /\ PseudoDone => Range(PseudoPaths) \subseteq Range(img_paths[f][1])
              /\ Range(img_paths[f][2]) \cap Range(PseudoPaths) = {}
              /\ TwoDatasets => Range(img_paths[f][2]) \cap Range(SecondaryPaths) = {}
        /\ model.built =>
              /\ Range(loaders.val_set.paths) \subseteq HeldOut(model.fold)
              /\ TwoDatasets =>
                    Range(SecondaryPaths) \subseteq Range(loaders.train_set.paths)
              /\ args.pseudo_labels =>
                    Range(PseudoPaths) \subseteq Range(loaders.train_set.paths)

\* a fold built with the secondary dataset, pseudo-labels and a duplicate
\* removed from its validation side
C9_Witness ==
    /\ TwoDatasets
    /\ args.pseudo_labels
    /\ args.remove_duplicate
    /\ model.built
    /\ model.fold = 2
    /\ Len(loaders.val_set.paths) < Len(img_paths[2][2])
    /\ Len(loaders.val_set.paths) > 0

\* C10: the composer yields exactly n_splits fold splits; in each the
\* validation samples are disjoint from the training samples, and the
\* validation sets are pairwise disjoint and together are the whole
\* primary dataset.
C10_FoldsPartitionPrimary ==
    loaded.img_paths =>
        /\ Len(img_paths) = args.n_splits
        /\ Len(labels) = args.n_splits
        /\ \A f \in 1..Len(img_paths) :
              /\ Range(img_paths[f][1]) \cap Range(img_paths[f][2]) = {}
              /\ Cardinality(Range(img_paths[f][2])) = Len(img_paths[f][2])
              /\ \A g \in 1..Len(img_paths) :
                    f # g => Range(img_paths[f][2]) \cap Range(img_paths[g][2]) = {}
        /\ UNION {Range(img_paths[f][2]) : f \in 1..Len(img_paths)} = Range(PrimaryPaths)

\* three folds of one dataset alone: validation sets of sizes 2, 1 and 1
C10_Witness ==
    /\ loaded.img_paths
    /\ args.train_dataset = <<"diabetic_retinopathy">>
    /\ args.n_splits = 3
    /\ pc = "fold_loop"
    /\ Len(img_paths[1][2]) = 2
    /\ Len(img_paths[2][2]) = 1
    /\ Len(img_paths[3][2]) = 1

\* the rows of the current fold's log file hold epochs 0..n-1 in this order
\* and are the rows of the log in memory
LogOnDisk(n) ==
    /\ disk.log[fold + 1].exists
    /\ disk.log[fold + 1].rows = log
    /\ Len(log) = n
    /\ \A i \in 1..n : log[i].epoch = i - 1

\* C11: in a training fold, once epoch e's row has been written (the
\* tracker updates of epoch e are next or under way) the fold's log on disk
\* holds exactly the e+1 rows of epochs 0..e in increasing order; while
\* epoch e > 0 is still training, validating or stepping the scheduler it
\* holds the e rows of the epochs before; at the end of the epoch loop it
\* holds one row per epoch.  The file changes only in the logging step,
\* which leaves both trackers as they are: one full rewrite per epoch,
\* before that epoch's tracker updates.
C11_LogDurability ==
    /\ [](/\ pc \in {"rule_a", "rule_b"} => LogOnDisk(epoch + 1)
          /\ (pc \in {"train", "validate", "scheduler", "log"} /\ epoch > 0) =>
                LogOnDisk(epoch)
          /\ (pc = "fold_end" /\ args.epochs > 0) => LogOnDisk(args.epochs))
    /\ [][disk.log' # disk.log =>
             /\ pc = "log"
             /\ UNCHANGED <<best, best_1, epoch, fold>>]_vars

\* the second epoch's row has just been written, the trackers not yet updated
C11_Witness ==
    /\ pc = "rule_a"
    /\ epoch = 1
    /\ Len(disk.log[fold + 1].rows) = 2
    /\ disk.log[fold + 1].rows[2].epoch = 1
    /\ best.epoch = 0

\* the run was ended by an exception raised inside an epoch: in the train
\* pass, in the validate pass or in a write
EpochFailure ==
    /\ pc = "failed"
    /\ err \in {"RuntimeError", "TypeError", "UnboundLocalError", "OSError"}

\* C12: a failure inside an epoch ends the run: nothing runs after it (no
\* later epoch, no later fold, no write of a summary table), the log of
\* the fold on disk still holds the rows written for the epochs before the
\* failure (the e rows of epochs 0..e-1, and epoch e's own row when epoch e
\* failed after writing it), and the summary tables hold no row of the
\* failed fold.
C12_EpochFailureKeepsLog ==
    /\ [](EpochFailure =>
             /\ disk.log[fold + 1].rows \in {SubSeq(log, 1, epoch), log}
             /\ FoldStr(fold) \notin Range(disk.results.fold)
             /\ FoldStr(fold) \notin Range(disk.results_1.fold))
    /\ [][pc # "failed"]_vars

\* the fold index a cell of the fold column names; 0 for the mean row
FoldNo(cell) ==
    IF \E f \in 0..5 : FoldStr(f) = cell
    THEN (CHOOSE f \in 0..5 : FoldStr(f) = cell) + 1
    ELSE 0

\* data rows in strictly increasing fold index, then the mean row, every
\* column as long as the fold column
OrderedTable(t) ==
    LET n == Len(t.fold)
    IN  /\ n >= 2
        /\ t.fold[n] = "mean"
        /\ t.best_epoch[n] = Blank
        /\ \A i \in 1..(n - 1) : FoldNo(t.fold[i]) >= 1
        /\ \A i, j \in 1..(n - 1) : i < j => FoldNo(t.fold[i]) < FoldNo(t.fold[j])
        /\ \A c \in {"best_loss", "best_score", "best_ac_score", "best_f1_score",
                     "best_epoch"} : Len(t[c]) = n

\* C13: whenever a summary table exists on disk its data rows are in
\* strictly increasing fold index and its last row is the mean row,
\* whatever folds of the run were trained and whatever folds were skipped.
C13_SummaryRowsOrdered ==
    /\ disk.results.exists => OrderedTable(disk.results)
    /\ disk.results_1.exists => OrderedTable(disk.results_1)

\* fold 1 was trained and its tables written, fold 2 was resume-skipped
C13_Witness ==
    /\ pc = "done"
    /\ disk.results.exists
    /\ disk.results_1.exists
    /\ lists.folds = <<"1", "2">>
    /\ trained = {1}
    /\ disk.results.fold = <<"1", "mean">>

\* C14: once main() is past its first statements the arguments are on disk
\* (args.txt and args.pkl) as they are in memory, in particular before the
\* first fold starts, and no later step changes any field of them: loss
\* and output selection, loading and composing the datasets, the fold loop
\* and the epoch loop leave args as they are.
C14_ConfigurationFrozen ==
    /\ [](pc # "start" =>
             /\ disk.args.exists
             /\ disk.args.content = args)
    /\ [][pc # "start" => (args' = args /\ disk'.args = disk.args)]_vars

\* the second epoch of the second fold, the arguments still as they were dumped
C14_Witness ==
    /\ pc = "rule_b"
    /\ fold = 1
    /\ epoch = 1
    /\ disk.args.exists
    /\ disk.args.content = args
    /\ args.name = "default"

\* the snapshot made of one epoch's validation values
SnapshotOf(v, e) ==
    [loss |-> v.val_loss, score |-> v.val_score, ac_score |-> v.val_ac_score,
     f1_score |-> v.val_f1_score, epoch |-> e]

\* C15: the step of rule A in an epoch of a training fold: when the
\* epoch's validation score is strictly greater than best_score and the
\* step completes, the five fields of the primary snapshot become this
\* epoch's validation loss, score, accuracy, F1 and epoch index and
\* adj_<fold>.pkl becomes this epoch's adj; when the score is equal or
\* lower, the five fields and every adj file stay as they are.
C15_RuleA ==
    [][pc = "rule_a" =>
          IF val_out.val_score > best.score
          THEN pc' = "rule_b" =>
                  /\ best' = SnapshotOf(val_out, epoch)
                  /\ disk'.adj[fold + 1] = [exists |-> TRUE, adj |-> val_out.adj]
          ELSE /\ best' = best
               /\ disk'.adj = disk.adj
               /\ pc' = "rule_b"]_vars

\* epoch 1 has just replaced the snapshot epoch 0 had set, and its adj is
\* the one on disk
C15_Witness ==
    /\ pc = "rule_b"
    /\ epoch = 1
    /\ Len(log) = 2
    /\ log[1].val_score = 0
    /\ log[2].val_score = 1
    /\ best = SnapshotOf(val_out, 1)
    /\ disk.adj[fold + 1].adj.epoch = 1

\* C16: the step of rule B replaces the secondary snapshot by this epoch's
\* values when the epoch's validation accuracy is strictly greater than
\* best_ac_score_1, the secondary snapshot's own accuracy, and leaves it
\* as it is otherwise; it writes no field of the primary snapshot, and the
\* step of rule A writes no field of the secondary snapshot.
C16_RuleBOwnRecord ==
    [][/\ pc = "rule_b" =>
             /\ best' = best
             /\ best_1' = IF val_out.val_ac_score > best_1.ac_score
                          THEN SnapshotOf(val_out, epoch)
                          ELSE best_1
       /\ pc = "rule_a" => best_1' = best_1]_vars

\* the second epoch's accuracy equals the secondary best and exceeds the
\* primary snapshot's accuracy: the secondary snapshot stays with epoch 0
C16_Witness ==
    /\ pc = "fold_end"
    /\ Len(log) = 2
    /\ log[1].val_ac_score = 1
    /\ log[2].val_ac_score = 1
    /\ best.ac_score = 0
    /\ best_1.ac_score = 1
    /\ best_1.epoch = 0

\* the positions inside one epoch
EpochBody == {"train", "validate", "scheduler", "log", "rule_a", "rule_b"}

\* C17: the validate pass starts only from the completed train pass of the
\* same epoch; an epoch starts only as epoch 0 of a fold just set up or as
\* the successor of the epoch just finished, and the epoch loop ends only
\* after epoch args.epochs - 1; the fold index moves only by one, and only
\* from the end of a trained fold or from a skipped fold; a fold is set up
\* only from the head of the fold loop.  While a fold's epochs run, the
\* one model that exists is that fold's: no two folds are active at once.
C17_ExecutionOrder ==
    /\ [][/\ (pc' = "validate" /\ pc # "validate") =>
                (pc = "train" /\ epoch' = epoch /\ fold' = fold)
          /\ (pc' = "train" /\ pc # "train") =>
                \/ pc = "setup" /\ epoch' = 0 /\ fold' = fold
                \/ pc = "rule_b" /\ epoch' = epoch + 1 /\ fold' = fold
          /\ epoch' # epoch => (pc = "rule_b" \/ pc = "setup")
          /\ (pc' = "fold_end" /\ pc # "fold_end") =>
                \/ pc = "rule_b" /\ epoch' = args.epochs
                \/ pc = "setup" /\ args.epochs = 0
          /\ fold' # fold =>
                /\ fold' = fold + 1
                /\ pc \in {"fold_end", "fold_loop"}
                /\ pc' \in {"fold_loop", "done"}
          /\ (pc' = "setup" /\ pc # "setup") => (pc = "fold_loop" /\ fold' = fold)]_vars
    /\ [](pc \in (EpochBody \cup {"fold_end"}) =>
             /\ model.fold = fold + 1
             /\ model.cache = "held"
             /\ epoch <= args.epochs
             /\ pc \in EpochBody => epoch < args.epochs)

\* the second fold validates its second epoch, the first fold trained
C17_Witness ==
    /\ pc = "validate"
    /\ fold = 1
    /\ epoch = 1
    /\ trained = {1}
    /\ model.fold = 2

\* score 0, accuracy 0, F1 0, loss +infinity, epoch 0
WorstSnapshot ==
    [loss |-> Inf, score |-> 0, ac_score |-> 0, f1_score |-> 0, epoch |-> 0]

\* the primary snapshot that the first n rows of a log give, from the worst
RECURSIVE TrackA(_, _)
TrackA(rows, n) ==
    IF n = 0 THEN WorstSnapshot
    ELSE LET b == TrackA(rows, n - 1)
         IN  IF rows[n].val_score > b.score
             THEN SnapshotOf(rows[n], rows[n].epoch) ELSE b

\* the secondary snapshot that the first n rows of a log give, from the worst
RECURSIVE TrackB(_, _)
TrackB(rows, n) ==
    IF n = 0 THEN WorstSnapshot
    ELSE LET b == TrackB(rows, n - 1)
         IN  IF rows[n].val_ac_score > b.ac_score
             THEN SnapshotOf(rows[n], rows[n].epoch) ELSE b

\* C18: a trained fold begins its first epoch (or, with no epoch, ends)
\* with both trackers at the worst values: score 0, accuracy 0, F1 0, loss
\* +infinity, epoch 0, also when the fold before was resume-skipped and
\* bound best_loss, best_score and best_ac_score from its log; so at the
\* end of the fold's epochs the two snapshots are what the fold's own log
\* rows give from the worst values.
C18_TrackersReset ==
    /\ (pc = "train" /\ epoch = 0) =>
          (best = WorstSnapshot /\ best_1 = WorstSnapshot)
    /\ pc = "fold_end" =>
          /\ Len(log) = args.epochs
          /\ best = TrackA(log, Len(log))
          /\ best_1 = TrackB(log, Len(log))

\* fold 1 was skipped and left its log's values in the tracker names; fold
\* 2 has been set up and starts from the worst values
C18_Witness ==
    /\ pc = "train"
    /\ epoch = 0
    /\ fold = 1
    /\ trained = {}
    /\ lists.folds = <<"1">>
    /\ lists.best_scores = <<1>>
    /\ best = WorstSnapshot
    /\ best_1 = WorstSnapshot

\* C19: in every epoch of a training fold the scheduler has been stepped
\* once per earlier epoch while the epoch trains and validates, and once
\* more from the moment the epoch's row is about to be appended: the step
\* comes after the validate pass and before the row.  The plateau
\* scheduler's step is given this epoch's validation loss, the cosine
\* scheduler's step no argument.  The scheduler changes in no other step
\* of an epoch.
C19_SchedulerOncePerEpoch ==
    /\ [](/\ pc \in {"train", "validate", "scheduler"} =>
                (scheduler.steps = epoch /\ Len(log) = epoch)
          /\ pc = "log" => (scheduler.steps = epoch + 1 /\ Len(log) = epoch)
          /\ pc \in {"rule_a", "rule_b"} => scheduler.steps = epoch + 1
          /\ pc = "fold_end" => scheduler.steps = args.epochs
          /\ pc \in (EpochBody \cup {"fold_end"}) => scheduler.kind = args.scheduler
          /\ pc \in {"log", "rule_a", "rule_b"} =>
                scheduler.last = IF args.scheduler = "ReduceLROnPlateau"
                                 THEN val_out.val_loss ELSE 0)
    /\ [][(pc \in EpochBody /\ scheduler' # scheduler) =>
             (pc = "scheduler" /\ pc' = "log" /\ val_out' = val_out)]_vars

\* the plateau scheduler, stepped in the second epoch with a validation
\* loss other than the first epoch's, the second row not yet appended
C19_Witness ==
    /\ pc = "log"
    /\ epoch = 1
    /\ scheduler.kind = "ReduceLROnPlateau"
    /\ scheduler.steps = 2
    /\ Len(log) = 1
    /\ log[1].val_loss = 1
    /\ val_out.val_loss = 2
    /\ scheduler.last = 2

\* the label the input tables give the image of a path
LabelOf(p) == inputs[p.dir][p.id].label

\* labs[i] is the label of paths[i], for every position
Aligned(paths, labs) ==
    /\ Len(paths) = Len(labs)
    /\ \A i \in 1..Len(paths) : labs[i] = LabelOf(paths[i])

\* the paths line 394 flags: strMd5_count > 1 with a diagnosis
Flagged == Range(PathsOf("aptos2019", DuplicateIds(inputs.md5)))

\* C20: after the k-fold split and the mixing, after the pseudo-labelled
\* samples are appended, and in the sets a fold is built from after
\* duplicate removal, train paths and train labels have one length, so
\* have validation paths and validation labels, and the label at every
\* position is the label of the image at that position.  With duplicate
\* removal the fold's sets are the fold's split without the flagged
\* images, on the training side and on the validation side.
C20_SampleSetsAligned ==
    /\ loaded.img_paths =>
          /\ Len(labels) = Len(img_paths)
          /\ \A f \in 1..Len(img_paths) :
                /\ Aligned(img_paths[f][1], labels[f][1])
                /\ Aligned(img_paths[f][2], labels[f][2])
    /\ model.built =>
          /\ Aligned(loaders.train_set.paths, loaders.train_set.labels)
          /\ Aligned(loaders.val_set.paths, loaders.val_set.labels)
          /\ LET drop == IF args.remove_duplicate THEN Flagged ELSE {}
             IN  /\ Range(loaders.train_set.paths) =
                       Range(img_paths[model.fold][1]) \ drop
                 /\ Range(loaders.val_set.paths) =
                       Range(img_paths[model.fold][2]) \ drop
                 /\ Len(loaders.train_set.paths) =
                       Cardinality(Range(loaders.train_set.paths))
                 /\ Len(loaders.val_set.paths) =
                       Cardinality(Range(loaders.val_set.paths))

\* a fold of two datasets and pseudo-labels that lost a flagged image on
\* its training side and another on its validation side
C20_Witness ==
    /\ model.built
    /\ TwoDatasets
    /\ args.pseudo_labels
    /\ args.remove_duplicate
    /\ Len(loaders.train_set.paths) < Len(img_paths[model.fold][1])
    /\ Len(loaders.val_set.paths) < Len(img_paths[model.fold][2])
    /\ Len(loaders.val_set.paths) > 0

\* C21: a model is constructed only when the device cache is released:
\* the cache is held from a fold's construction through all its epochs, it
\* is released only at the end of a trained fold, after the fold's last
\* epoch, and so every construction after the first follows a release that
\* came after the previous model's last epoch.
C21_CacheReleasedBetweenFolds ==
    /\ [](/\ pc \in EpochBody => (model.built /\ model.cache = "held")
          /\ (pc = "setup" /\ model.built) =>
                (model.cache = "released" /\ model.fold \in trained))
    /\ [][/\ (model'.cache = "held" /\ model' # model /\ pc = "setup") =>
                model.cache = "released"
          /\ (model.cache = "held" /\ model'.cache = "released") =>
                (pc = "fold_end" /\ epoch = args.epochs)]_vars

\* the second fold is about to construct its model; the first fold's model
\* ran its epochs and the cache was released after them
C21_Witness ==
    /\ pc = "setup"
    /\ fold = 1
    /\ model.built
    /\ model.fold = 1
    /\ model.forward
    /\ model.cache = "released"
    /\ trained = {1}

\* the eleven lists the two summary tables are built from
SummaryLists ==
    <<lists.folds, lists.best_losses, lists.best_scores, lists.best_ac_scores,
      lists.best_f1_scores, lists.best_epochs, lists.best_losses_1,
      lists.best_scores_1, lists.best_ac_scores_1, lists.best_f1_scores_1,
      lists.best_epochs_1>>

\* C22: at every fold boundary (the head of the fold loop, and the end of
\* the run) the eleven lists have one length, the number of folds gone
\* through, whatever folds were skipped and whatever folds were trained;
\* and no run ends in the ValueError that pd.DataFrame raises for columns
\* of different lengths.
C22_ListsSameLength ==
    /\ pc \in {"fold_loop", "done"} =>
          /\ SameLength(SummaryLists)
          /\ Len(lists.folds) = fold
    /\ pc = "failed" => err # "ValueError"

\* b is the record of an epoch of the current fold's log: the epoch its
\* index names ran, and its four metrics are that epoch's logged
\* validation values
RecordOfLoggedEpoch(b) ==
    /\ b.epoch + 1 \in 1..Len(log)
    /\ log[b.epoch + 1].epoch = b.epoch
    /\ b = SnapshotOf(log[b.epoch + 1], b.epoch)

\* C23: when the epoch loop of a trained fold has ended, the primary and
\* the secondary snapshot the fold returns are each the record of an epoch
\* that ran in this fold, whatever the validation metrics were (scores and
\* accuracies that never exceed 0 included) and whatever the epoch count
\* (0 included).
C23_SnapshotIsLoggedEpoch ==
    pc = "fold_end" =>
        /\ RecordOfLoggedEpoch(best)
        /\ RecordOfLoggedEpoch(best_1)

\* the fold just left was resume-skipped: its artifact is on disk and its
\* values are the last the lists received
JustSkipped ==
    /\ pc = "fold_loop"
    /\ fold >= 1
    /\ fold \in disk.model
    /\ fold \notin trained
    /\ lists.folds # <<>>
    /\ Last(lists.folds) = FoldStr(fold - 1)

\* C24: the (loss, score, accuracy) a resume-skipped fold reports are those
\* of the primary snapshot that a training run writing the fold's log
\* returned: the snapshot rule A gives over the log's rows.
C24_ResumeReportsRuleARow ==
    JustSkipped =>
        LET rows == disk.log[fold].rows
            b == TrackA(rows, Len(rows))
        IN  /\ Last(lists.best_losses) = b.loss
            /\ Last(lists.best_scores) = b.score
            /\ Last(lists.best_ac_scores) = b.ac_score

\* C25: when the epoch loop of a trained fold has ended, the adj_<fold>.pkl
\* on disk holds the adj that the validate pass returned in this run, in
\* this fold, in the epoch the primary snapshot records as best_epoch; it
\* is not the adj of another epoch or of an earlier run of the same name.
C25_AdjOfBestEpoch ==
    (pc = "fold_end" /\ disk.adj[fold + 1].exists) =>
        disk.adj[fold + 1].adj = [run |-> run, fold |-> fold + 1, epoch |-> best.epoch]

\* max(0, the greatest value of column c over the rows)
MaxOrZero(rows, c) ==
    LET S == {rows[i][c] : i \in 1..Len(rows)} \cup {0}
    IN  CHOOSE m \in S : \A x \in S : x <= m

\* C26: from any step inside an epoch of a training fold to the next, the
\* primary best score, the secondary best accuracy and both best-epoch
\* indices do not decrease; and once epoch e's two rules have run (the next
\* epoch is about to train, or the epoch loop has ended) the primary best
\* score is max(0, greatest logged val_score of epochs 0..e) and the
\* secondary best accuracy is max(0, greatest logged val_ac_score of epochs
\* 0..e).
C26_TrackersMonotone ==
    /\ [][/\ pc \in EpochBody => best'.score >= best.score
          /\ pc \in EpochBody => best'.epoch >= best.epoch
          /\ pc \in EpochBody => best_1'.ac_score >= best_1.ac_score
          /\ pc \in EpochBody => best_1'.epoch >= best_1.epoch]_vars
    /\ [](pc \in {"train", "fold_end"} =>
             /\ Len(log) = epoch
             /\ best.score = MaxOrZero(log, "val_score")
             /\ best_1.ac_score = MaxOrZero(log, "val_ac_score"))

\* two epochs: the score fell after epoch 0 and the primary tracker kept
\* epoch 0, the accuracy rose in epoch 1 and the secondary tracker moved
C26_Witness ==
    /\ pc = "fold_end"
    /\ Len(log) = 2
    /\ log[1].val_score = 1
    /\ log[2].val_score = 0
    /\ log[1].val_ac_score = 0
    /\ log[2].val_ac_score = 1
    /\ best.score = 1
    /\ best.epoch = 0
    /\ best_1.ac_score = 1
    /\ best_1.epoch = 1
====
